---------------------------- MODULE Spec2Model ----------------------------
(***************************************************************************)
(* A model of the geoCore provider (geocore_pygeoapi/provider/cgp.py).     *)
(*                                                                         *)
(* Python values are modelled as follows.  A str is a sequence of          *)
(* one-character strings.  A value that may be None is tagged: Str(s) or   *)
(* None.  A dict is a function from its keys to its values, so that        *)
(* "k in d" is k \in DOMAIN d.  A list is a sequence.                      *)
(*                                                                         *)
(* The provider handles one call (query or get) at a time; pc is the       *)
(* position of that call.  The helpers _asisodate, _getbbox and the JSON   *)
(* repair of _parse_json are operators, computed as the code computes      *)
(* them, and each has a specification of its own whose initial states      *)
(* draw its inputs.                                                        *)
(***************************************************************************)
EXTENDS Integers, Sequences, FiniteSets, TLC

VARIABLES
    pc,         \* position of the call in progress
    call,       \* the call: its name and its arguments
    os_name,    \* os.name of the interpreter: "posix" or "nt"
    requests,   \* number of HTTP GETs issued by the call
    response,   \* the upstream's response to the GET
    json_str,   \* _parse_json's body after the regex substitution
    json_obj,   \* what _request_json returned
    result,     \* the value the call returned
    error       \* the exception the call raised, or "none"

vars == <<pc, call, os_name, requests, response, json_str, json_obj, result, error>>

---------------------------------------------------------------------------
(* Python values *)

None == [k |-> "none", v |-> <<>>]

Str(s) == [k |-> "str", v |-> s]

PyInt(n) == [k |-> "int", v |-> n]

List(l) == [k |-> "list", v |-> l]

NoResult == [type |-> "NoResult"]

EmptyDict == [q \in {} |-> None]

DictPop(d, key) == [q \in DOMAIN d \ {key} |-> d[q]]

DictSet(d, key, val) ==
    [q \in DOMAIN d \cup {key} |-> IF q = key THEN val ELSE d[q]]

DictGet(d, key, default) == IF key \in DOMAIN d THEN d[key] ELSE default

RECURSIVE Concat(_)
Concat(ss) == IF ss = <<>> THEN <<>> ELSE Head(ss) \o Concat(Tail(ss))

---------------------------------------------------------------------------
(* _asisodate and DATE_REGEX *)

DigitChars == <<"0", "1", "2", "3", "4", "5", "6", "7", "8", "9">>

IsDigit(c) == \E i \in 1..10 : DigitChars[i] = c

DigitVal(c) == (CHOOSE i \in 1..10 : DigitChars[i] = c) - 1

\* int(i) of a non-empty string of digits
RECURSIVE ToInt(_)
ToInt(s) ==
    IF s = <<>> THEN 0
    ELSE 10 * ToInt(SubSeq(s, 1, Len(s) - 1)) + DigitVal(s[Len(s)])

\* \d{0,2} at position p of s: the number of characters it takes (greedy)
TakeDigits(s, p) ==
    IF p <= Len(s) /\ IsDigit(s[p])
    THEN IF p + 1 <= Len(s) /\ IsDigit(s[p + 1]) THEN 2 ELSE 1
    ELSE 0

\* an optional single character of cs at position p: the position after it
SkipOpt(s, p, cs) == IF p <= Len(s) /\ s[p] \in cs THEN p + 1 ELSE p

NoMatch == <<>>

\* DATE_REGEX.match(s).groups(), or NoMatch when match() returns None.
\* Everything after (\d{4}) may match the empty string and the pattern is
\* not anchored at its end, so the greedy scan never backtracks.
DateRegexMatch(s) ==
    IF ~(Len(s) >= 4 /\ \A i \in 1..4 : IsDigit(s[i])) THEN NoMatch
    ELSE
        LET p1 == SkipOpt(s, 5, {"-"})
            n1 == TakeDigits(s, p1)
            p2 == SkipOpt(s, p1 + n1, {"-"})
            n2 == TakeDigits(s, p2)
            p3 == SkipOpt(s, p2 + n2, {"T", "|", " "})
            n3 == TakeDigits(s, p3)
            p4 == SkipOpt(s, p3 + n3, {":"})
            n4 == TakeDigits(s, p4)
            p5 == SkipOpt(s, p4 + n4, {":"})
            n5 == TakeDigits(s, p5)
        IN  << SubSeq(s, 1, 4),
               SubSeq(s, p1, p1 + n1 - 1),
               SubSeq(s, p2, p2 + n2 - 1),
               SubSeq(s, p3, p3 + n3 - 1),
               SubSeq(s, p4, p4 + n4 - 1),
               SubSeq(s, p5, p5 + n5 - 1) >>

\* the generator expression of line 127: int(i) if i else 1
GroupValue(g) == IF g # <<>> THEN ToInt(g) ELSE 1

IsLeap(y) == (y % 4 = 0) /\ ((y % 100 # 0) \/ (y % 400 = 0))

DaysInMonth(y, m) ==
    IF m = 2 THEN (IF IsLeap(y) THEN 29 ELSE 28)
    ELSE IF m \in {4, 6, 9, 11} THEN 30 ELSE 31

\* datetime(y, mo, d, h, mi, s) raises ValueError outside these ranges
DatetimeOk(y, mo, d, h, mi, s) ==
    /\ y \in 1..9999
    /\ mo \in 1..12
    /\ d >= 1 /\ d <= DaysInMonth(y, mo)
    /\ h \in 0..23
    /\ mi \in 0..59
    /\ s \in 0..59

Pad2(n) == << DigitChars[(n \div 10) + 1], DigitChars[(n % 10) + 1] >>

Pad4(n) == Pad2(n \div 100) \o Pad2(n % 100)

\* datetime.isoformat() of a datetime without microseconds
Isoformat(y, mo, d, h, mi, s) ==
    Pad4(y) \o <<"-">> \o Pad2(mo) \o <<"-">> \o Pad2(d) \o <<"T">>
        \o Pad2(h) \o <<":">> \o Pad2(mi) \o <<":">> \o Pad2(s)

\* lines 128-131: datetime(*numbers) and the test of the year
AsisodateOf(y, mo, d, h, mi, s) ==
    IF ~DatetimeOk(y, mo, d, h, mi, s) THEN None        \* ValueError
    ELSE IF y = 1 THEN None
    ELSE Str(Isoformat(y, mo, d, h, mi, s) \o <<"Z">>)

\* lines 126-127: the groups of the match as numbers
AsisodateGroups(g) ==
    IF g = NoMatch THEN None                            \* AttributeError
    ELSE AsisodateOf(GroupValue(g[1]), GroupValue(g[2]), GroupValue(g[3]),
                     GroupValue(g[4]), GroupValue(g[5]), GroupValue(g[6]))

Asisodate(value) ==
    IF value.k # "str" THEN None                        \* TypeError
    ELSE AsisodateGroups(DateRegexMatch(value.v))

---------------------------------------------------------------------------
(* Inputs of _asisodate: timestamps written component by component, and    *)
(* values that are no timestamp.                                           *)

DateYears == {2020, 2019, 1, 0}

DateMonths == {5, 2, 13, 0}

DateDays == {3, 29, 31}

DateHours == {0, 7, 24}

DateMinutes == {0, 8, 60}

DateSeconds == {0, 9, 60}

\* n is the number of components written; the others are left out
DateParts ==
    [n : {1}, y : DateYears, mo : {1}, d : {1}, tsep : {"T"}, h : {0}, mi : {0}, s : {0}]
    \cup [n : {2}, y : DateYears, mo : DateMonths, d : {1}, tsep : {"T"}, h : {0}, mi : {0}, s : {0}]
    \cup [n : {3}, y : DateYears, mo : DateMonths, d : DateDays, tsep : {"T"}, h : {0}, mi : {0}, s : {0}]
    \cup [n : {4}, y : DateYears, mo : DateMonths, d : DateDays, tsep : {"T", " "}, h : DateHours, mi : {0}, s : {0}]
    \cup [n : {5}, y : DateYears, mo : DateMonths, d : DateDays, tsep : {"T", " "}, h : DateHours, mi : DateMinutes, s : {0}]
    \cup [n : {6}, y : DateYears, mo : DateMonths, d : DateDays, tsep : {"T", " "}, h : DateHours, mi : DateMinutes, s : DateSeconds]

\* the text YYYY[-MM[-DD[(T| )HH[:MM[:SS]]]]] of p
RenderDate(p) ==
    Pad4(p.y)
        \o (IF p.n >= 2 THEN <<"-">> \o Pad2(p.mo) ELSE <<>>)
        \o (IF p.n >= 3 THEN <<"-">> \o Pad2(p.d) ELSE <<>>)
        \o (IF p.n >= 4 THEN <<p.tsep>> \o Pad2(p.h) ELSE <<>>)
        \o (IF p.n >= 5 THEN <<":">> \o Pad2(p.mi) ELSE <<>>)
        \o (IF p.n >= 6 THEN <<":">> \o Pad2(p.s) ELSE <<>>)

Garbage == <<"g", "a", "r", "b", "a", "g", "e">>

\* strings DATE_REGEX does not match at all
NonMatchingDates == {Garbage, <<>>, <<"2", "0">>, <<"2", "0", "2", "-", "0", "5">>}

\* strings that are not of the documented form but that DATE_REGEX matches
LooseDates ==
    { <<"2", "0", "2", "0", "0", "5", "0", "3">>,
      <<"2", "0", "2", "0", "-", "5", "-", "3">>,
      <<"2", "0", "2", "0", "-", "0", "5", "-", "0", "3", "j", "u", "n", "k">>,
      <<"2", "0", "2", "0", "-", "0", "5", "-", "0", "3", "|", "0", "7">> }

DateInputs ==
    {Str(RenderDate(p)) : p \in DateParts}
        \cup {Str(s) : s \in NonMatchingDates \cup LooseDates}
        \cup {None, PyInt(5)}

NoCall == [name |-> "none"]

InitDate ==
    /\ pc = "ready"
    /\ call \in {[name |-> "_asisodate", value |-> v] : v \in DateInputs}
    /\ os_name = "posix"
    /\ requests = 0
    /\ response = NoResult
    /\ json_str = NoResult
    /\ json_obj = NoResult
    /\ result = NoResult
    /\ error = "none"

CallAsisodate ==
    /\ pc = "ready"
    /\ call.name = "_asisodate"
    /\ result' = Asisodate(call.value)
    /\ pc' = "done"
    /\ UNCHANGED <<call, os_name, requests, response, json_str, json_obj, error>>

NextDate == CallAsisodate

SpecDate == InitDate /\ [][NextDate]_vars

\* what the documentation of the date normalization gives for p: a missing
\* month or day is 1, a missing hour, minute or second is 0
DocumentedDate(p) ==
    LET mo == IF p.n >= 2 THEN p.mo ELSE 1
        d  == IF p.n >= 3 THEN p.d ELSE 1
        h  == IF p.n >= 4 THEN p.h ELSE 0
        mi == IF p.n >= 5 THEN p.mi ELSE 0
        s  == IF p.n >= 6 THEN p.s ELSE 0
    IN  IF DatetimeOk(p.y, mo, d, h, mi, s) /\ p.y # 1
        THEN Str(Isoformat(p.y, mo, d, h, mi, s) \o <<"Z">>)
        ELSE None

\* C1: _asisodate gives, for every input YYYY[-MM[-DD[(T| )HH[:MM[:SS]]]]],
\* the ISO timestamp with a trailing Z in which a missing month or day is 1
\* and a missing hour, minute or second is 0, and null for year 1, for None
\* and for non-matching or out-of-range input.
C1_DateNormalization ==
    (pc = "done" /\ call.name = "_asisodate") =>
        /\ \A p \in DateParts :
               call.value = Str(RenderDate(p)) => result = DocumentedDate(p)
        /\ call.value = None => result = None
        /\ \A s \in NonMatchingDates : call.value = Str(s) => result = None

---------------------------------------------------------------------------
(* _getbbox.  A float is Num(n) or NaN; every comparison with NaN is false. *)

NaN == [k |-> "nan", v |-> 0]

Num(n) == [k |-> "num", v |-> n]

\* a < b on floats
PyLess(a, b) == a.k = "num" /\ b.k = "num" /\ a.v < b.v

\* min(a, b): the first argument, unless the second is less
PyMin(a, b) == IF PyLess(b, a) THEN b ELSE a

\* max(a, b): the first argument, unless the second is greater
PyMax(a, b) == IF PyLess(a, b) THEN b ELSE a

\* a mutant of BboxStep: the running value passed first to min and max
BboxStepAccFirst(acc, pt) ==
    << PyMin(acc[1], pt[1]), PyMin(acc[2], pt[2]),
       PyMax(acc[3], pt[1]), PyMax(acc[4], pt[2]) >>

\* lines 196-199: one point (x, y) against [minx, miny, maxx, maxy]
BboxStep(acc, pt) ==
    << PyMin(pt[1], acc[1]), PyMin(pt[2], acc[2]),
       PyMax(pt[1], acc[3]), PyMax(pt[2], acc[4]) >>

\* the inner loop: for x, y in part
RECURSIVE BboxPart(_, _)
BboxPart(acc, part) ==
    IF part = <<>> THEN acc
    ELSE BboxPart(BboxStep(acc, Head(part)), Tail(part))

\* the outer loop: for part in coords
RECURSIVE BboxParts(_, _)
BboxParts(acc, coords) ==
    IF coords = <<>> THEN acc
    ELSE BboxParts(BboxPart(acc, Head(coords)), Tail(coords))

Getbbox(coords) == BboxParts(<<NaN, NaN, NaN, NaN>>, coords)

---------------------------------------------------------------------------
(* Inputs of _getbbox *)

MaxRings == 2

MaxRingLen == 2

BboxPoints == { <<Num(-1), Num(2)>>, <<Num(2), Num(-1)>>, <<NaN, Num(1)>> }

SeqsUpTo(S, n) == UNION {[1..m -> S] : m \in 0..n}

BboxRings == SeqsUpTo(BboxPoints, MaxRingLen)

BboxCoords == SeqsUpTo(BboxRings, MaxRings)

InitBbox ==
    /\ pc = "ready"
    /\ call \in {[name |-> "_getbbox", coords |-> c] : c \in BboxCoords}
    /\ os_name = "posix"
    /\ requests = 0
    /\ response = NoResult
    /\ json_str = NoResult
    /\ json_obj = NoResult
    /\ result = NoResult
    /\ error = "none"

CallGetbbox ==
    /\ pc = "ready"
    /\ call.name = "_getbbox"
    /\ result' = Getbbox(call.coords)
    /\ pc' = "done"
    /\ UNCHANGED <<call, os_name, requests, response, json_str, json_obj, error>>

NextBbox == CallGetbbox

SpecBbox == InitBbox /\ [][NextBbox]_vars

\* the points of every ring of coords
PointsOf(coords) ==
    UNION {{coords[i][j] : j \in 1..Len(coords[i])} : i \in 1..Len(coords)}

\* C9: for rings of non-NaN points the box returned by _getbbox contains
\* every point and each of its four bounds is attained by some point; with
\* no point at all the four components are NaN.
C9_BboxBounds ==
    (pc = "done" /\ call.name = "_getbbox") =>
        LET pts == PointsOf(call.coords) IN
        /\ pts = {} => result = <<NaN, NaN, NaN, NaN>>
        /\ (pts # {} /\ \A pt \in pts : pt[1] # NaN /\ pt[2] # NaN) =>
              /\ \A i \in 1..4 : result[i] # NaN
              /\ \A pt \in pts :
                    /\ result[1].v <= pt[1].v /\ pt[1].v <= result[3].v
                    /\ result[2].v <= pt[2].v /\ pt[2].v <= result[4].v
              /\ \E pt \in pts : pt[1] = result[1]
              /\ \E pt \in pts : pt[2] = result[2]
              /\ \E pt \in pts : pt[1] = result[3]
              /\ \E pt \in pts : pt[2] = result[4]

\* two non-empty rings of non-NaN points whose first point sets none of the
\* bounds alone: the box is wider than its first point
C9_Witness ==
    /\ pc = "done" /\ call.name = "_getbbox"
    /\ Len(call.coords) = 2
    /\ Len(call.coords[1]) > 0 /\ Len(call.coords[2]) > 0
    /\ \A pt \in PointsOf(call.coords) : pt[1] # NaN
    /\ PyLess(result[1], call.coords[1][1][1])
    /\ PyLess(call.coords[1][1][2], result[4])

---------------------------------------------------------------------------
(* _parse_json on the text of a body: JSON_REGEX, unescape and json.loads  *)

QUOTE == "\""

BSLASH == "\\"

\* what opens and closes a span of JSON_REGEX[os]: "\"\" and \"\"" on
\* POSIX, """ and """ on Windows
JsonRegexOpen(os) ==
    IF os = "posix" THEN <<QUOTE, BSLASH, QUOTE, BSLASH, QUOTE>>
    ELSE <<QUOTE, QUOTE, QUOTE>>

JsonRegexClose(os) ==
    IF os = "posix" THEN <<BSLASH, QUOTE, BSLASH, QUOTE, QUOTE>>
    ELSE <<QUOTE, QUOTE, QUOTE>>

\* a mutant of JsonRegex: the POSIX pattern written with one escaped quote
JsonRegexOneQuote(os) ==
    IF os = "posix"
    THEN [open |-> <<QUOTE, BSLASH, QUOTE>>, close |-> <<BSLASH, QUOTE, QUOTE>>]
    ELSE [open |-> JsonRegexOpen(os), close |-> JsonRegexClose(os)]

JsonRegex(os) == [open |-> JsonRegexOpen(os), close |-> JsonRegexClose(os)]

\* pat occurs in s at position i
At(s, i, pat) ==
    /\ i >= 1
    /\ i + Len(pat) - 1 <= Len(s)
    /\ SubSeq(s, i, i + Len(pat) - 1) = pat

\* where the opening, .+? (one character at least, as few as possible) and
\* the closing can start after an opening at i
CloseStarts(s, i, os) ==
    {j \in (i + Len(JsonRegex(os).open) + 1)..Len(s) :
        At(s, j, JsonRegex(os).close)}

\* the last position of the match of JSON_REGEX[os] at i, 0 without a match
MatchEnd(s, i, os) ==
    IF At(s, i, JsonRegex(os).open) /\ CloseStarts(s, i, os) # {}
    THEN (CHOOSE j \in CloseStarts(s, i, os) :
             \A j2 \in CloseStarts(s, i, os) : j <= j2)
         + Len(JsonRegex(os).close) - 1
    ELSE 0

\* codecs.escape_decode on quotes, backslashes and letters without a meaning
\* as an escape: \" and \\ are decoded, any other \c is kept as it is
RECURSIVE EscapeDecode(_)
EscapeDecode(m) ==
    IF m = <<>> THEN <<>>
    ELSE IF m[1] = BSLASH /\ Len(m) >= 2
    THEN (IF m[2] \in {QUOTE, BSLASH} THEN <<m[2]>> ELSE <<m[1], m[2]>>)
             \o EscapeDecode(SubSeq(m, 3, Len(m)))
    ELSE <<m[1]>> \o EscapeDecode(Tail(m))

\* str.replace(old, new), non-overlapping, from the left; occ is where old
\* occurs in s
RECURSIVE Replace(_, _, _)
ReplaceFirst(s, occ, old, new) ==
    IF occ = {} THEN s
    ELSE LET i == CHOOSE k \in occ : \A k2 \in occ : k <= k2
         IN  SubSeq(s, 1, i - 1) \o new
                 \o Replace(SubSeq(s, i + Len(old), Len(s)), old, new)

Replace(s, old, new) ==
    ReplaceFirst(s, {i \in 1..Len(s) : At(s, i, old)}, old, new)

\* str.strip(c)
RECURSIVE Strip(_, _)
Strip(s, cs) ==
    IF s = <<>> THEN <<>>
    ELSE IF s[1] \in cs THEN Strip(Tail(s), cs)
    ELSE IF s[Len(s)] \in cs THEN Strip(SubSeq(s, 1, Len(s) - 1), cs)
    ELSE s

\* the nested function unescape, lines 83-88
Unescape(m, os) ==
    LET decoded   == EscapeDecode(m)
        unescaped == IF os # "nt" THEN Replace(decoded, <<BSLASH>>, <<>>)
                     ELSE decoded
    IN  Strip(Replace(unescaped, <<QUOTE, QUOTE>>, <<QUOTE>>), {QUOTE})

\* self._getregex.sub(unescape, body), from position i on
RECURSIVE RegexSub(_, _, _)
RegexSub(s, i, os) ==
    IF i > Len(s) THEN <<>>
    ELSE IF MatchEnd(s, i, os) > 0
    THEN Unescape(SubSeq(s, i, MatchEnd(s, i, os)), os)
             \o RegexSub(s, MatchEnd(s, i, os) + 1, os)
    ELSE <<s[i]>> \o RegexSub(s, i + 1, os)

\* json.loads of the text of one string literal: [ok, v]
RECURSIVE LiteralBody(_)
LiteralBody(t) ==
    IF t = <<>> THEN [ok |-> TRUE, v |-> <<>>]
    ELSE IF t[1] = QUOTE THEN [ok |-> FALSE, v |-> <<>>]
    ELSE IF t[1] = BSLASH
    THEN IF Len(t) >= 2 /\ t[2] \in {QUOTE, BSLASH}
         THEN LET r == LiteralBody(SubSeq(t, 3, Len(t)))
              IN  [ok |-> r.ok, v |-> <<t[2]>> \o r.v]
         ELSE [ok |-> FALSE, v |-> <<>>]
    ELSE LET r == LiteralBody(Tail(t))
         IN  [ok |-> r.ok, v |-> <<t[1]>> \o r.v]

LoadsLiteral(t) ==
    IF Len(t) >= 2 /\ t[1] = QUOTE /\ t[Len(t)] = QUOTE
    THEN LiteralBody(SubSeq(t, 2, Len(t) - 1))
    ELSE [ok |-> FALSE, v |-> <<>>]

ItemsPrefix == <<"{", QUOTE, "I", "t", "e", "m", "s", QUOTE, ":", "[">>

ItemsSuffix == <<"]", "}">>

ErrorPrefix ==
    <<"{", QUOTE, "e", "r", "r", "o", "r", "M", "e", "s", "s", "a", "g", "e",
      QUOTE, ":">>

ErrorSuffix == <<"}">>

Wrapped(t, prefix, suffix) ==
    /\ Len(t) >= Len(prefix) + Len(suffix)
    /\ At(t, 1, prefix)
    /\ At(t, Len(t) - Len(suffix) + 1, suffix)

Inner(t, prefix, suffix) == SubSeq(t, Len(prefix) + 1, Len(t) - Len(suffix))

JSONDecodeError == [ok |-> FALSE, obj |-> EmptyDict]

\* json.loads of a text {"Items":[...]} or {"errorMessage":...} whose inner
\* text is made of quotes, backslashes and letters: the array holds no
\* element or one string literal, the message is one string literal
JsonLoads(t) ==
    IF Wrapped(t, ItemsPrefix, ItemsSuffix)
    THEN LET in == Inner(t, ItemsPrefix, ItemsSuffix) IN
         IF in = <<>> THEN [ok |-> TRUE, obj |-> [Items |-> <<>>]]
         ELSE IF LoadsLiteral(in).ok
         THEN [ok |-> TRUE, obj |-> [Items |-> <<LoadsLiteral(in).v>>]]
         ELSE JSONDecodeError
    ELSE IF Wrapped(t, ErrorPrefix, ErrorSuffix)
              /\ LoadsLiteral(Inner(t, ErrorPrefix, ErrorSuffix)).ok
    THEN [ok |-> TRUE,
          obj |-> [errorMessage |->
                      LoadsLiteral(Inner(t, ErrorPrefix, ErrorSuffix)).v]]
    ELSE JSONDecodeError

---------------------------------------------------------------------------
(* Inputs of _parse_json: bodies that are well-formed JSON, written by a   *)
(* JSON encoder from a string value, and a few that are not.               *)

MaxValueLen == 5

JsonChars == {QUOTE, BSLASH, "z"}

JsonValues == SeqsUpTo(JsonChars, MaxValueLen)

\* json.dumps of a string of JsonChars
RECURSIVE DumpsBody(_)
DumpsBody(v) ==
    IF v = <<>> THEN <<>>
    ELSE (IF v[1] \in {QUOTE, BSLASH} THEN <<BSLASH, v[1]>> ELSE <<v[1]>>)
             \o DumpsBody(Tail(v))

Dumps(v) == <<QUOTE>> \o DumpsBody(v) \o <<QUOTE>>

\* inner texts that are no JSON: a bare word, a Windows-style span, a
\* literal that is never closed
MalformedInner ==
    { <<"z">>,
      <<QUOTE, QUOTE, QUOTE, "z", QUOTE, QUOTE, QUOTE>>,
      <<QUOTE, "z">> }

BodyTexts ==
    {ItemsPrefix \o Dumps(v) \o ItemsSuffix : v \in JsonValues}
        \cup {ErrorPrefix \o Dumps(v) \o ErrorSuffix :
                 v \in SeqsUpTo(JsonChars, 1)}
        \cup {ItemsPrefix \o t \o ItemsSuffix : t \in MalformedInner}
        \cup {ItemsPrefix \o ItemsSuffix, <<>>}

InitRepair ==
    /\ pc = "ready"
    /\ call \in {[name |-> "_parse_json", body |-> b] : b \in BodyTexts}
    /\ os_name \in {"posix", "nt"}
    /\ requests = 0
    /\ response = NoResult
    /\ json_str = NoResult
    /\ json_obj = NoResult
    /\ result = NoResult
    /\ error = "none"

\* lines 90-97: the empty body, else the regex substitution
ParseJsonSub ==
    /\ pc = "ready"
    /\ call.name = "_parse_json"
    /\ IF call.body = <<>>
       THEN /\ result' = EmptyDict
            /\ pc' = "done"
            /\ UNCHANGED json_str
       ELSE /\ json_str' = RegexSub(call.body, 1, os_name)
            /\ pc' = "loads"
            /\ UNCHANGED result
    /\ UNCHANGED <<call, os_name, requests, response, json_obj, error>>

\* lines 98-109: json.loads and the check for Items
ParseJsonLoads ==
    /\ pc = "loads"
    /\ call.name = "_parse_json"
    /\ LET r == JsonLoads(json_str) IN
       IF ~r.ok
       THEN result' = EmptyDict /\ UNCHANGED error
       ELSE IF "Items" \notin DOMAIN r.obj
       THEN error' = "ProviderInvalidQueryError" /\ UNCHANGED result
       ELSE result' = r.obj /\ UNCHANGED error
    /\ pc' = "done"
    /\ UNCHANGED <<call, os_name, requests, response, json_str, json_obj>>

NextRepair == ParseJsonSub \/ ParseJsonLoads

SpecRepair == InitRepair /\ [][NextRepair]_vars

\* the outcome of _parse_json had the body been given to json.loads as it is
StandardParse(body) ==
    LET r == JsonLoads(body) IN
    IF ~r.ok THEN [result |-> EmptyDict, error |-> "none"]
    ELSE IF "Items" \notin DOMAIN r.obj
    THEN [result |-> NoResult, error |-> "ProviderInvalidQueryError"]
    ELSE [result |-> r.obj, error |-> "none"]

\* C10 (as claimed): on every body that is well-formed JSON the substitution
\* changes nothing, and _parse_json gives the standard parse of the body.
C10_RepairNoOpOnValidJson ==
    (pc = "done" /\ call.name = "_parse_json" /\ JsonLoads(call.body).ok) =>
        /\ json_str = call.body
        /\ result = StandardParse(call.body).result
        /\ error = StandardParse(call.body).error

\* an escaped-string span, spelled out: "\"\" ... \"\"" on POSIX and
\* """ ... """ on Windows, with one character at least in between
EscapedSpanAt(body, i, j) ==
    IF os_name = "posix"
    THEN /\ At(body, i, <<QUOTE, BSLASH, QUOTE, BSLASH, QUOTE>>)
         /\ At(body, j, <<BSLASH, QUOTE, BSLASH, QUOTE, QUOTE>>)
         /\ j >= i + 6
    ELSE /\ At(body, i, <<QUOTE, QUOTE, QUOTE>>)
         /\ At(body, j, <<QUOTE, QUOTE, QUOTE>>)
         /\ j >= i + 4

HasEscapedSpan(body) ==
    \E i \in 1..Len(body) : \E j \in 1..Len(body) : EscapedSpanAt(body, i, j)

\* the length of the longest common prefix of s and t
RECURSIVE CommonPrefix(_, _)
CommonPrefix(s, t) ==
    IF s = <<>> \/ t = <<>> \/ Head(s) # Head(t) THEN 0
    ELSE 1 + CommonPrefix(Tail(s), Tail(t))

\* the length of the longest common suffix of s and t
RECURSIVE CommonSuffix(_, _)
CommonSuffix(s, t) ==
    IF s = <<>> \/ t = <<>> \/ s[Len(s)] # t[Len(t)] THEN 0
    ELSE 1 + CommonSuffix(SubSeq(s, 1, Len(s) - 1), SubSeq(t, 1, Len(t) - 1))

\* C10 (amended): a body without an escaped-string span is left unchanged by
\* the substitution, which is then idempotent, and is parsed as json.loads
\* parses it; on Windows no well-formed JSON body holds a span; and whatever
\* the body, the text before its first span and after its last span is kept.
C10_RepairNoOpWithoutSpan ==
    (pc = "done" /\ call.name = "_parse_json" /\ call.body # <<>>) =>
        /\ ~HasEscapedSpan(call.body) =>
              /\ json_str = call.body
              /\ RegexSub(json_str, 1, os_name) = json_str
              /\ result = StandardParse(call.body).result
              /\ error = StandardParse(call.body).error
        /\ (os_name = "nt" /\ JsonLoads(call.body).ok) =>
              ~HasEscapedSpan(call.body)
        /\ \A i \in 1..Len(call.body) :
              (\A i2 \in 1..i : \A j \in 1..Len(call.body) :
                  ~EscapedSpanAt(call.body, i2, j))
                  => CommonPrefix(call.body, json_str) >= i
        /\ \A j \in 1..Len(call.body) :
              (\A j2 \in (j - 4)..Len(call.body) : \A i \in 1..Len(call.body) :
                  ~EscapedSpanAt(call.body, i, j2))
                  => CommonSuffix(call.body, json_str) >= Len(call.body) - j + 1

\* a well-formed body on POSIX whose string holds escaped quotes and a
\* backslash but no span, parsed to its one item
C10_Witness ==
    /\ pc = "done" /\ call.name = "_parse_json" /\ os_name = "posix"
    /\ JsonLoads(call.body).ok
    /\ ~HasEscapedSpan(call.body)
    /\ \E i \in 1..Len(call.body) :
          At(call.body, i, <<QUOTE, BSLASH, QUOTE, BSLASH, QUOTE>>)
    /\ \E i \in 1..Len(call.body) : At(call.body, i, <<BSLASH, BSLASH>>)
    /\ json_str = call.body
    /\ error = "none" /\ Len(result.Items) = 1

---------------------------------------------------------------------------
(* _valid_id: uuid.UUID(identifier) *)

HexChars ==
    {"0", "1", "2", "3", "4", "5", "6", "7", "8", "9",
     "a", "b", "c", "d", "e", "f", "A", "B", "C", "D", "E", "F"}

\* the digits UUID(hex) is left with: hex.replace('urn:', '')
\* .replace('uuid:', '').strip('{}').replace('-', '')
UuidHex(s) ==
    Replace(Strip(Replace(Replace(s, <<"u", "r", "n", ":">>, <<>>), <<"u", "u", "i", "d", ":">>, <<>>),
                  {"{", "}"}),
            <<"-">>, <<>>)

\* len(hex) == 32 and int(hex, 16) succeeds
IsHex32(h) == Len(h) = 32 /\ \A i \in 1..32 : h[i] \in HexChars

\* a mutant of ValidId: the identifier only has to be a string
ValidIdAnyString(identifier) == identifier.k = "str"

\* TypeError for None, AttributeError for a value that is no string,
\* ValueError unless 32 hexadecimal digits are left
ValidId(identifier) ==
    /\ identifier.k = "str"
    /\ IsHex32(UuidHex(identifier.v))

---------------------------------------------------------------------------
(* _aslist, _asdict, _gettimerange, _getcoords, _getextent *)

\* str.split(delim) for a delimiter of one character
RECURSIVE Split(_, _)
Split(s, delim) ==
    IF \A i \in 1..Len(s) : s[i] # delim THEN <<s>>
    ELSE LET i == CHOOSE k \in 1..Len(s) :
                      s[k] = delim /\ \A k2 \in 1..(k - 1) : s[k2] # delim
         IN  <<SubSeq(s, 1, i - 1)>> \o Split(SubSeq(s, i + 1, Len(s)), delim)

Whitespace == {" "}

\* value or ''
OrEmpty(value) == IF value.k = "str" THEN value.v ELSE <<>>

RECURSIVE StripAll(_)
StripAll(parts) ==
    IF parts = <<>> THEN <<>>
    ELSE <<Strip(Head(parts), Whitespace)>> \o StripAll(Tail(parts))

Aslist(value) ==
    SelectSeq(StripAll(Split(OrEmpty(value), ",")), LAMBDA v : v # <<>>)

\* the pairs (k.strip(), v.strip()) of _asdict in the order they are set; a
\* part without "=" makes the unpacking of line 181 raise ValueError
RECURSIVE AsdictPairs(_)
AsdictPairs(parts) ==
    IF parts = <<>> THEN <<>>
    ELSE LET kv == Split(Head(parts), "=")
         IN  << IF Len(kv) < 2 THEN <<"ValueError">>
                ELSE <<Strip(kv[1], Whitespace), Strip(kv[2], Whitespace)>> >>
                 \o AsdictPairs(Tail(parts))

Asdict(value) ==
    IF value.k # "str" \/ value.v = <<>>
          \/ (\A i \in 1..Len(value.v) : value.v[i] # "=")
    THEN <<>>
    ELSE AsdictPairs(Split(Strip(value.v, {"{", "}"}), ","))

AsdictRaises(value) ==
    \E i \in 1..Len(Asdict(value)) : Asdict(value)[i] = <<"ValueError">>

\* t_extent.get(key): the last pair set for key, else None
RECURSIVE PairsGet(_, _)
PairsGet(pairs, key) ==
    IF pairs = <<>> THEN None
    ELSE IF pairs[Len(pairs)][1] = key THEN Str(pairs[Len(pairs)][2])
    ELSE PairsGet(SubSeq(pairs, 1, Len(pairs) - 1), key)

Gettimerange(temporal) ==
    << Asisodate(PairsGet(Asdict(temporal), <<"b", "e", "g", "i", "n">>)),
       Asisodate(PairsGet(Asdict(temporal), <<"e", "n", "d">>)) >>

CRS84 == "http://www.opengis.net/def/crs/OGC/1.3/CRS84"

Gregorian == "http://www.opengis.net/def/uom/ISO-8601/0/Gregorian"

Getextent(coords, temporal) ==
    [spatial  |-> [bbox |-> <<<<Getbbox(coords)>>>>, crs |-> CRS84],
     temporal |-> [interval |-> Gettimerange(temporal), trs |-> Gregorian]]

\* The value of 'coordinates' is a list, List(rings), or the text of a JSON
\* document, given by what json.loads makes of it:
\* [k |-> "str", ok |-> whether it parses, v |-> the list it parses to],
\* or null.

\* the exception _getcoords lets through, "none" without one: json.loads(None)
\* raises TypeError, which line 160 does not catch
GetcoordsRaises(item) ==
    IF "coordinates" \in DOMAIN item /\ item.coordinates.k = "none"
    THEN "TypeError" ELSE "none"

\* the list _getcoords returns when it raises nothing
Getcoords(item) ==
    IF "coordinates" \notin DOMAIN item THEN <<>>
    ELSE IF item.coordinates.k = "list" THEN item.coordinates.v
    ELSE IF item.coordinates.k = "str" /\ item.coordinates.ok
    THEN item.coordinates.v
    ELSE <<>>

---------------------------------------------------------------------------
(* _to_geojson *)

\* the global lang, as a key of a dict and as the text of a link's hreflang
LangKey == "en"

LangText == <<"e", "n">>

UpperChars ==
    <<"A", "B", "C", "D", "E", "F", "G", "H", "I", "J", "K", "L", "M",
      "N", "O", "P", "Q", "R", "S", "T", "U", "V", "W", "X", "Y", "Z">>

LowerChars ==
    <<"a", "b", "c", "d", "e", "f", "g", "h", "i", "j", "k", "l", "m",
      "n", "o", "p", "q", "r", "s", "t", "u", "v", "w", "x", "y", "z">>

\* str.lower()
Lower(s) ==
    [i \in 1..Len(s) |->
        IF \E k \in 1..26 : UpperChars[k] = s[i]
        THEN LowerChars[CHOOSE k \in 1..26 : UpperChars[k] = s[i]]
        ELSE s[i]]

\* str.count(c)
Count(s, c) == Cardinality({i \in 1..Len(s) : s[i] = c})

\* bool(x) of a string or None
Truthy(x) == x.k = "str" /\ x.v # <<>>

\* a mutant of LinkDropped: only a link without type and without URL is dropped
LinkDroppedWhenBothMissing(type_, url) == ~Truthy(type_) /\ ~Truthy(url)

\* line 300: not (type_ and url)
LinkDropped(type_, url) == ~(Truthy(type_) /\ Truthy(url))

\* lines 291-309: one entry of options; kept says whether a link is appended
OptionLink(opt) ==
    LET url      == DictGet(opt, "url", None)
        title    == DictGet(DictGet(opt, "name", EmptyDict), LangKey, None)
        protocol == DictGet(opt, "protocol", None)
        desc     == DictGet(DictGet(opt, "description", EmptyDict), LangKey,
                            Str(<<>>))
        override == Truthy(desc) /\ Count(desc.v, ";") = 2
        type_    == IF override THEN Str(Split(desc.v, ";")[1]) ELSE protocol
        rel      == IF override THEN Str(Split(desc.v, ";")[2])
                    ELSE Str(<<"i", "t", "e", "m">>)
        i18n     == IF override THEN Split(desc.v, ";")[3] ELSE LangText
    IN  [kept |-> ~LinkDropped(type_, url),
         lnk  |-> [href |-> url, type |-> type_, rel |-> rel,
                   title |-> title, hreflang |-> Str(Lower(i18n))]]

\* the loop of line 290 over options: item.setdefault('associations', [])
\* .append(lnk) for every link kept
RECURSIVE AddAssociations(_, _)
AddAssociations(item, options) ==
    IF options = <<>> THEN item
    ELSE AddAssociations(
             IF OptionLink(Head(options)).kept
             THEN DictSet(item, "associations",
                          Append(DictGet(item, "associations", <<>>),
                                 OptionLink(Head(options)).lnk))
             ELSE item,
             Tail(options))

\* lines 259-262: the four date properties
SetDates(item, date_created, date_updated) ==
    DictSet(DictSet(DictSet(DictSet(item,
            "record-created", date_created),
            "record-updated", date_updated),
            "created", date_created),
            "updated", date_updated)

\* lines 257-262: the date properties
WithDates(item) ==
    SetDates(DictPop(item, "published"),
             Asisodate(DictGet(item, "created", None)),
             Asisodate(DictGet(item, "published", None)))

\* line 265
WithKeywords(item) ==
    DictSet(item, "keywords", Aslist(DictGet(item, "keywords", None)))

\* a mutant of GeometryOf: the geometry is built although it is to be skipped
GeometryOfNeverSkipped(coords, skip_geometry) ==
    IF coords # <<>> THEN [type |-> "Polygon", coordinates |-> coords]
    ELSE None

\* lines 269-277: feature['geometry']
GeometryOf(coords, skip_geometry) ==
    IF coords # <<>> /\ ~skip_geometry
    THEN [type |-> "Polygon", coordinates |-> coords]
    ELSE None

\* lines 279-283: item['extent'], only with coordinates
WithExtent(item, coords) ==
    IF coords # <<>>
    THEN DictSet(DictPop(item, "temporalExtent"), "extent",
                 Getextent(coords, DictGet(item, "temporalExtent", None)))
    ELSE item

\* the ValueError of _asdict, raised from _getextent
ExtentRaises(item, coords) ==
    coords # <<>> /\ AsdictRaises(DictGet(item, "temporalExtent", None))

\* item.pop('graphicOverview', [{}])
GraphicOverview(item) == DictGet(item, "graphicOverview", <<EmptyDict>>)

\* [0] of an empty list raises IndexError
ThumbnailRaises(item) == GraphicOverview(item) = <<>>

\* lines 313-315
WithThumbnail(item) ==
    LET url == DictGet(GraphicOverview(item)[1], "overviewfilename", None)
    IN  IF Truthy(url)
        THEN DictSet(DictPop(item, "graphicOverview"), "thumbnailUrl", url)
        ELSE DictPop(item, "graphicOverview")

Skipped == [k |-> "skip"]

Raised(exc) == [k |-> "raise", exc |-> exc]

\* lines 313-336 of one iteration: the thumbnail, then the feature is appended
FromThumbnail(item, id_, total, coords, skip_geometry) ==
    IF ThumbnailRaises(item) THEN Raised("IndexError")
    ELSE [k |-> "feature",
          num_matched |-> PyInt(total),
          feature |-> [type |-> "Feature",
                       geometry |-> GeometryOf(coords, skip_geometry),
                       id |-> id_,
                       properties |-> WithThumbnail(item)]]

\* lines 289-310 of one iteration: the options become associations
FromOptions(item, id_, total, coords, skip_geometry) ==
    FromThumbnail(AddAssociations(DictPop(item, "options"),
                                  DictGet(item, "options", <<>>)),
                  id_, total, coords, skip_geometry)

\* lines 279-286 of one iteration: the extent
FromExtent(item, id_, total, coords, skip_geometry) ==
    IF ExtentRaises(item, coords) THEN Raised("ValueError")
    ELSE FromOptions(WithExtent(item, coords), id_, total, coords,
                     skip_geometry)

\* line 268 of one iteration: the coordinates are popped
FromCoords(item, id_, total, skip_geometry) ==
    IF GetcoordsRaises(item) # "none" THEN Raised(GetcoordsRaises(item))
    ELSE FromExtent(DictPop(item, "coordinates"), id_, total,
                    Getcoords(item), skip_geometry)

\* lines 254-265 of one iteration: total, dates and keywords
FromTotal(item, id_, skip_geometry) ==
    FromCoords(WithKeywords(WithDates(DictPop(item, "total"))), id_,
               DictGet(item, "total", 0), skip_geometry)

\* one iteration of the loop of line 239: the record is skipped, or an
\* exception ends _to_geojson, or a feature is appended and num_matched set
ProcessItem(item, skip_geometry) ==
    IF ~ValidId(DictGet(item, "id", None)) THEN Skipped
    ELSE FromTotal(DictSet(DictPop(item, "id"), "externalId",
                           DictGet(item, "id", None)),
                   DictGet(item, "id", None), skip_geometry)

\* the loop of line 239 from the items left, with the features and the
\* num_matched so far; r is what the iteration on the first of them gives
RECURSIVE ToGeojsonLoop(_, _, _, _)
LoopStep(r, items, skip_geometry, features, num_matched) ==
    IF r.k = "raise"
    THEN [exc |-> r.exc, features |-> features, num_matched |-> num_matched]
    ELSE IF r.k = "skip"
    THEN ToGeojsonLoop(Tail(items), skip_geometry, features, num_matched)
    ELSE ToGeojsonLoop(Tail(items), skip_geometry,
                       Append(features, r.feature), r.num_matched)

ToGeojsonLoop(items, skip_geometry, features, num_matched) ==
    IF items = <<>>
    THEN [exc |-> "none", features |-> features, num_matched |-> num_matched]
    ELSE LoopStep(ProcessItem(Head(items), skip_geometry), items,
                  skip_geometry, features, num_matched)

Returned(value) == [result |-> value, error |-> "none"]

Raise(exc) == [result |-> NoResult, error |-> exc]

\* a mutant of Collect: an empty collection instead of ProviderNoDataError
CollectEmpty(features, num_matched, limit) ==
    IF features # <<>> /\ limit = 1 THEN Returned(features[1])
    ELSE Returned([type |-> "FeatureCollection", features |-> features,
                   numberReturned |-> Len(features)])

\* lines 321-336: what _to_geojson does with the features of the loop
Collect(features, num_matched, limit) ==
    IF features = <<>> THEN Raise("ProviderNoDataError")
    ELSE IF limit = 1 THEN Returned(features[1])
    ELSE IF num_matched.k = "int" /\ num_matched.v # 0
    THEN Returned([type |-> "FeatureCollection", features |-> features,
                   numberReturned |-> Len(features),
                   numberMatched |-> num_matched.v])
    ELSE Returned([type |-> "FeatureCollection", features |-> features,
                   numberReturned |-> Len(features)])

\* l is what the loop leaves
AfterLoop(l, limit) ==
    IF l.exc # "none" THEN Raise(l.exc)
    ELSE Collect(l.features, l.num_matched, limit)

ToGeojson(obj, limit, skip_geometry) ==
    AfterLoop(ToGeojsonLoop(DictGet(obj, "Items", <<>>), skip_geometry,
                            <<>>, None),
              limit)

---------------------------------------------------------------------------
(* The upstream: identifiers, records and responses *)

UuidCanonical == <<"1", "2", "3", "4", "a", "b", "c", "d", "-", "0", "0", "f", "f", "-", "4", "e", "5", "f", "-", "8", "a", "9", "b", "-", "0", "1", "2", "3", "4", "5", "6", "7", "8", "9", "a", "b">>

\* the same kind of identifier in its URN form, upper case, without hyphens
UuidUrn == <<"u", "r", "n", ":", "u", "u", "i", "d", ":", "{", "1", "2", "3", "4", "A", "B", "C", "D", "0", "0", "F", "F", "4", "E", "5", "F", "8", "A", "9", "B", "0", "1", "2", "3", "4", "5", "6", "7", "8", "9", "A", "C", "}">>

NotAUuid == <<"n", "o", "t", "-", "a", "-", "u", "u", "i", "d">>

Ring == << <<Num(-1), Num(2)>>, <<Num(0), Num(-1)>>, <<Num(2), Num(0)>> >>

BaseOption ==
    [url |-> Str(<<"h", "t", "t", "p", ":", "/", "/", "x">>), protocol |-> Str(<<"H", "T", "T", "P", "S">>),
     name |-> [en |-> Str(<<"d", "a", "t", "a">>)]]

\* a record with every field in good order
BaseItem(total) ==
    [id |-> Str(UuidCanonical),
     total |-> total,
     title |-> Str(<<"t">>),
     created |-> Str(<<"2", "0", "2", "0", "-", "0", "5", "-", "0", "3">>),
     published |-> Str(<<"2", "0", "2", "1">>),
     keywords |-> Str(<<"a", ",", " ", "b">>),
     coordinates |-> List(<<Ring>>),
     temporalExtent |-> Str(<<"{", "b", "e", "g", "i", "n", "=", "2", "0", "2", "0", "-", "0", "1", "-", "0", "1", ",", " ", "e", "n", "d", "=", "2", "0", "2", "1", "}">>),
     options |-> <<BaseOption>>,
     graphicOverview |-> <<[overviewfilename |-> Str(<<"t", ".", "p", "n", "g">>)]>>]

\* the records that differ from BaseItem(7) in their identifier or their total
IdItems ==
    { BaseItem(7),
      DictSet(BaseItem(7), "id", Str(UuidUrn)),
      DictSet(BaseItem(7), "id", Str(NotAUuid)),
      DictPop(BaseItem(7), "id"),
      DictPop(BaseItem(7), "total"),
      BaseItem(0) }

\* the records that differ from BaseItem(7) by coordinates that do not parse,
\* by a missing or empty graphicOverview or by dates that do not parse
NamedDefectItems ==
    { DictSet(BaseItem(7), "coordinates",
              [k |-> "str", ok |-> FALSE, v |-> <<>>]),
      DictSet(BaseItem(7), "graphicOverview", <<>>),
      DictPop(BaseItem(7), "graphicOverview"),
      DictSet(BaseItem(7), "created", Str(Garbage)),
      DictSet(BaseItem(7), "published", None) }

CoordinateValues ==
    { List(<<>>),
      [k |-> "str", ok |-> TRUE, v |-> <<Ring>>],
      None }

\* the records that differ from BaseItem(7) in their coordinates otherwise or
\* in a temporalExtent with a part that has no "="
OtherDefectItems ==
    {DictSet(BaseItem(7), "coordinates", c) : c \in CoordinateValues}
        \cup {DictPop(BaseItem(7), "coordinates"),
              DictSet(BaseItem(7), "temporalExtent", Str(<<"{", "b", "e", "g", "i", "n", "=", "2", "0", "2", "0", ",", " ", "e", "n", "d", "}">>))}

DefectItems == NamedDefectItems \cup OtherDefectItems

Items == IdItems \cup DefectItems

MaxItems == 2

\* a body is given by what json.loads makes of it after the substitution
BodiesOf(items) ==
    { [kind |-> "empty"],
      [kind |-> "unparseable"],
      [kind |-> "object", obj |-> EmptyDict],
      [kind |-> "object", obj |-> [errorMessage |-> "no such index"]] }
        \cup {[kind |-> "object", obj |-> [Items |-> l]] :
                 l \in SeqsUpTo(items, MaxItems)}

ResponsesOf(bodies) ==
    {[status |-> "http_error"], [status |-> "connection_error"]}
        \cup {[status |-> "ok", body |-> b] : b \in bodies}

Responses == ResponsesOf(BodiesOf(Items))

---------------------------------------------------------------------------
(* query and get *)

\* lines 394-426: the parameters of the search
QueryParams(startindex, limit, bbox) ==
    LET paging == [min |-> startindex + 1, max |-> startindex + limit] IN
    IF bbox # <<>>
    THEN [east |-> bbox[1], west |-> bbox[3], north |-> bbox[4],
          south |-> bbox[2], min |-> paging.min, max |-> paging.max]
    ELSE [keyword_only |-> "true", min |-> paging.min, max |-> paging.max]

QueryArgs ==
    [startindex : {0}, limit : {1, 10}, bbox : {<<>>}, skip_geometry : BOOLEAN]
        \cup {[startindex |-> 20, limit |-> 10, bbox |-> <<-10, -20, 30, 40>>,
               skip_geometry |-> FALSE]}

Identifiers == {Str(UuidUrn), Str(NotAUuid), None}

\* lines 90-109 on a body given by what json.loads makes of it
ParseJsonBody(body) ==
    IF body.kind \in {"empty", "unparseable"} THEN Returned(EmptyDict)
    ELSE IF "Items" \notin DOMAIN body.obj
    THEN Raise("ProviderInvalidQueryError")
    ELSE Returned(body.obj)

Init ==
    /\ pc = "idle"
    /\ call = NoCall
    /\ os_name = "posix"
    /\ requests = 0
    /\ response = NoResult
    /\ json_str = NoResult
    /\ json_obj = NoResult
    /\ result = NoResult
    /\ error = "none"

\* query is called: lines 375-428
Query(args) ==
    /\ pc = "idle"
    /\ \E a \in args :
          call' = [name |-> "query", limit |-> a.limit,
                   skip_geometry |-> a.skip_geometry,
                   params |-> QueryParams(a.startindex, a.limit, a.bbox)]
    /\ pc' = "request"
    /\ UNCHANGED <<os_name, requests, response, json_str, json_obj, result, error>>

\* get is called: line 434
Get(identifiers) ==
    /\ pc = "idle"
    /\ \E id \in identifiers : call' = [name |-> "get", identifier |-> id]
    /\ pc' = "validate"
    /\ UNCHANGED <<os_name, requests, response, json_str, json_obj, result, error>>

\* a mutant of GetValidate: the identifier is not validated
GetValidateNothing ==
    /\ pc = "validate"
    /\ pc' = "request"
    /\ UNCHANGED <<call, os_name, requests, response, json_str, json_obj, result, error>>

\* lines 443-450
GetValidate ==
    /\ pc = "validate"
    /\ IF ~ValidId(call.identifier)
       THEN error' = "ProviderInvalidQueryError" /\ pc' = "done"
       ELSE UNCHANGED error /\ pc' = "request"
    /\ UNCHANGED <<call, os_name, requests, response, json_str, json_obj, result>>

\* lines 137-148: the GET of _request_json and what the upstream answers
RequestJson(responses) ==
    /\ pc = "request"
    /\ requests' = requests + 1
    /\ \E r \in responses :
          /\ response' = r
          /\ IF r.status = "http_error"
             THEN error' = "ProviderQueryError" /\ pc' = "done"
             ELSE IF r.status = "connection_error"
             THEN error' = "ProviderConnectionError" /\ pc' = "done"
             ELSE UNCHANGED error /\ pc' = "parse"
    /\ UNCHANGED <<call, os_name, json_str, json_obj, result>>

\* line 150: _parse_json(response.text)
ParseJson ==
    /\ pc = "parse"
    /\ LET r == ParseJsonBody(response.body) IN
       IF r.error # "none"
       THEN error' = r.error /\ pc' = "done" /\ UNCHANGED json_obj
       ELSE /\ json_obj' = r.result
            /\ pc' = IF call.name = "get" THEN "check_items" ELSE "to_geojson"
            /\ UNCHANGED error
    /\ UNCHANGED <<call, os_name, requests, response, json_str, result>>

\* lines 455-456
GetCheckItems ==
    /\ pc = "check_items"
    /\ IF DictGet(json_obj, "Items", <<>>) = <<>>
       THEN error' = "ProviderItemNotFoundError" /\ pc' = "done"
       ELSE UNCHANGED error /\ pc' = "to_geojson"
    /\ UNCHANGED <<call, os_name, requests, response, json_str, json_obj, result>>

\* lines 432 and 459: the call returns what _to_geojson returns or raises
ReturnGeojson ==
    /\ pc = "to_geojson"
    /\ LET r == IF call.name = "get" THEN ToGeojson(json_obj, 1, FALSE)
                ELSE ToGeojson(json_obj, call.limit, call.skip_geometry)
       IN  result' = r.result /\ error' = r.error
    /\ pc' = "done"
    /\ UNCHANGED <<call, os_name, requests, response, json_str, json_obj>>

Next ==
    \/ Query(QueryArgs)
    \/ Get(Identifiers)
    \/ GetValidate
    \/ RequestJson(Responses)
    \/ ParseJson
    \/ GetCheckItems
    \/ ReturnGeojson

Spec == Init /\ [][Next]_vars

---------------------------------------------------------------------------
(* What a call returns, against what the upstream sent *)

\* the records _to_geojson is given
UpstreamItems ==
    IF json_obj = NoResult THEN <<>> ELSE DictGet(json_obj, "Items", <<>>)

\* the identifiers of the upstream domain that are UUIDs
IdParses(item) ==
    "id" \in DOMAIN item /\ item.id \in {Str(UuidCanonical), Str(UuidUrn)}

\* the records whose identifier is a UUID, in upstream order
Survivors == SelectSeq(UpstreamItems, IdParses)

\* _to_geojson has been called and the call has ended
ToGeojsonDone ==
    /\ pc = "done"
    /\ json_obj # NoResult
    /\ call.name = "get" => UpstreamItems # <<>>

QueryReturned == pc = "done" /\ call.name = "query" /\ error = "none"

\* the features of a result, be it a collection or a bare feature
FeaturesOf(res) ==
    IF res.type = "FeatureCollection" THEN res.features ELSE <<res>>

\* every record is BaseItem, but for its identifier, its total or one of the
\* malformations of NamedDefectItems
OnlyNamedDefects ==
    \A i \in 1..Len(UpstreamItems) :
        UpstreamItems[i] \in IdItems \cup NamedDefectItems

OnlyIdDefects ==
    \A i \in 1..Len(UpstreamItems) : UpstreamItems[i] \in IdItems

\* the record has coordinates that are, or parse to, a list with rings
HasCoords(item) ==
    /\ "coordinates" \in DOMAIN item
    /\ \/ item.coordinates.k = "list"
       \/ item.coordinates.k = "str" /\ item.coordinates.ok
    /\ item.coordinates.v # <<>>

SkipGeometry == call.name = "query" /\ call.skip_geometry

Limit == IF call.name = "query" THEN call.limit ELSE 1

\* C2: records with coordinates that do not parse, a missing or empty
\* graphicOverview or dates that do not parse never abort _to_geojson: no
\* exception escapes, and every record with a UUID gets its feature.
C2_MalformationsNeverAbort ==
    (ToGeojsonDone /\ OnlyNamedDefects) =>
        /\ error \in {"none", "ProviderNoDataError"}
        /\ Survivors # <<>> =>
              /\ error = "none"
              /\ Len(FeaturesOf(result)) =
                    IF Limit = 1 THEN 1 ELSE Len(Survivors)

\* the nonzero totals the records of the response carry
ReportedTotals ==
    {UpstreamItems[i].total :
        i \in {j \in 1..Len(UpstreamItems) :
                  "total" \in DOMAIN UpstreamItems[j]}} \ {0}

\* C3: in a FeatureCollection returned by query, numberMatched is the nonzero
\* total the upstream reported, whichever records carry it and survive, and
\* is left out only when no nonzero total was reported.
C3_NumberMatchedIsUpstreamTotal ==
    (QueryReturned /\ result.type = "FeatureCollection") =>
        IF ReportedTotals # {}
        THEN /\ "numberMatched" \in DOMAIN result
             /\ result.numberMatched \in ReportedTotals
        ELSE "numberMatched" \notin DOMAIN result

\* C4 as stated: geometry is null without coordinates that parse, and
\* properties.extent is present only when the geometry is not null.
C4_ExtentOnlyWithGeometry ==
    (ToGeojsonDone /\ error = "none") =>
        \A i \in 1..Len(FeaturesOf(result)) :
            /\ ~HasCoords(Survivors[i]) =>
                  FeaturesOf(result)[i].geometry = None
            /\ "extent" \in DOMAIN FeaturesOf(result)[i].properties =>
                  FeaturesOf(result)[i].geometry # None

\* C4: the geometry of a feature is the Polygon of the record's coordinates
\* when the record has coordinates that parse to a non-empty list and the
\* geometry is not to be skipped, and null otherwise; properties.extent is
\* present exactly when the record has such coordinates, skipped or not.
C4_GeometryAndExtentFromCoords ==
    (ToGeojsonDone /\ error = "none") =>
        \A i \in 1..Len(FeaturesOf(result)) :
            /\ FeaturesOf(result)[i].geometry =
                  IF HasCoords(Survivors[i]) /\ ~SkipGeometry
                  THEN [type |-> "Polygon",
                        coordinates |-> Survivors[i].coordinates.v]
                  ELSE None
            /\ "extent" \in DOMAIN FeaturesOf(result)[i].properties
                  <=> HasCoords(Survivors[i])
            /\ "coordinates" \notin DOMAIN FeaturesOf(result)[i].properties

\* a query that skips the geometry returns a feature with an extent
C4_Witness ==
    /\ QueryReturned /\ call.skip_geometry /\ call.limit # 1
    /\ Len(result.features) = 2
    /\ result.features[1].geometry = None
    /\ "extent" \in DOMAIN result.features[1].properties
    /\ "extent" \notin DOMAIN result.features[2].properties

\* C5 as stated: the features query returns are exactly the records whose id
\* is a UUID, in upstream order, with feature.id = properties.externalId, and
\* numberReturned is their number.
C5_FeaturesAreValidItems ==
    QueryReturned =>
        /\ Len(FeaturesOf(result)) = Len(Survivors)
        /\ \A i \in 1..Len(FeaturesOf(result)) :
              /\ FeaturesOf(result)[i].id = Survivors[i].id
              /\ FeaturesOf(result)[i].properties.externalId = Survivors[i].id
        /\ result.type = "FeatureCollection" =>
              result.numberReturned = Len(Survivors)

\* C5: with a limit other than 1, query returns a FeatureCollection of
\* exactly the records whose id is a UUID, in upstream order, with
\* feature.id = properties.externalId, and numberReturned is their number;
\* with limit 1 it returns the bare feature of the first such record.  A
\* record without a UUID is in no output and by itself aborts nothing.
C5_FeaturesAreValidItemsUnlessSingle ==
    /\ QueryReturned =>
          /\ Survivors # <<>>
          /\ \A i \in 1..Len(FeaturesOf(result)) :
                /\ FeaturesOf(result)[i].id = Survivors[i].id
                /\ FeaturesOf(result)[i].properties.externalId
                      = Survivors[i].id
          /\ IF call.limit = 1
             THEN result.type = "Feature"
             ELSE /\ result.type = "FeatureCollection"
                  /\ Len(result.features) = Len(Survivors)
                  /\ result.numberReturned = Len(Survivors)
    /\ (ToGeojsonDone /\ call.name = "query" /\ OnlyIdDefects
            /\ Survivors # <<>>) => error = "none"

\* a record without a UUID before one with a UUID: one feature is returned
C5_Witness ==
    /\ QueryReturned /\ call.limit # 1
    /\ Len(UpstreamItems) = 2
    /\ ~IdParses(UpstreamItems[1])
    /\ "id" \in DOMAIN UpstreamItems[1]
    /\ UpstreamItems[2].id = Str(UuidUrn)
    /\ result.numberReturned = 1
    /\ result.features[1].id = Str(UuidUrn)

\* the response leaves query without a record to return
NothingSurvives ==
    /\ response # NoResult
    /\ response.status = "ok"
    /\ \/ response.body.kind \in {"empty", "unparseable"}
       \/ /\ response.body.kind = "object"
          /\ "Items" \in DOMAIN response.body.obj
          /\ \A i \in 1..Len(response.body.obj.Items) :
                ~IdParses(response.body.obj.Items[i])

\* the response has zero Items
ZeroItems ==
    /\ response # NoResult
    /\ response.status = "ok"
    /\ \/ response.body.kind \in {"empty", "unparseable"}
       \/ /\ response.body.kind = "object"
          /\ "Items" \in DOMAIN response.body.obj
          /\ response.body.obj.Items = <<>>

\* C6: a query whose response has an empty or unparseable body, no Items or
\* only Items rejected by id validation raises ProviderNoDataError and
\* returns nothing; a get with a valid identifier whose response has zero
\* Items raises ProviderItemNotFoundError.
C6_EmptyResultErrors ==
    /\ (pc = "done" /\ call.name = "query" /\ NothingSurvives) =>
          error = "ProviderNoDataError" /\ result = NoResult
    /\ (pc = "done" /\ call.name = "get" /\ ZeroItems) =>
          error = "ProviderItemNotFoundError" /\ result = NoResult

\* a query ends on two records that are both rejected
C6_Witness ==
    /\ pc = "done" /\ call.name = "query" /\ NothingSurvives
    /\ response.body.kind = "object"
    /\ Len(response.body.obj.Items) = 2
    /\ error = "ProviderNoDataError"

\* C7: get issues no GET before the identifier has passed the validation; with
\* an identifier that is no UUID it ends with ProviderInvalidQueryError and
\* zero requests, with a UUID exactly one GET is issued before it ends.
C7_GetFailsFast ==
    call.name = "get" =>
        /\ requests <= 1
        /\ pc = "validate" => requests = 0
        /\ requests > 0 =>
              call.identifier \in {Str(UuidCanonical), Str(UuidUrn)}
        /\ pc = "done" =>
              IF call.identifier \in {Str(UuidCanonical), Str(UuidUrn)}
              THEN requests = 1
              ELSE requests = 0 /\ error = "ProviderInvalidQueryError"
                      /\ response = NoResult

\* a get with a UUID has ended after its one request
C7_Witness ==
    /\ call.name = "get" /\ pc = "done"
    /\ call.identifier = Str(UuidUrn)
    /\ requests = 1
    /\ error = "none" /\ result.type = "Feature"

---------------------------------------------------------------------------
(* The links of a record: query on records that differ in their options *)

MaxOptions == 2

\* the descriptions an entry of options comes with
Descriptions ==
    { <<>>,
      <<"a">>,
      <<"T", ";", "R", ";", "F", "R">>,
      <<";", "R", ";", "F", "R">>,
      <<"T", ";", ";">>,
      <<"T", ";", "R", ";", "F", ";", "X">> }

FullOption(desc) == DictSet(BaseOption, "description", [en |-> Str(desc)])

RECURSIVE DictPopAll(_, _)
DictPopAll(d, keys) ==
    IF keys = {} THEN d
    ELSE LET key == CHOOSE q \in keys : TRUE
         IN  DictPopAll(DictPop(d, key), keys \ {key})

\* entries with and without url, protocol and description, and one entry
\* without a name
LinkOptions ==
    {DictPopAll(o, keys) :
        o \in {FullOption(desc) : desc \in Descriptions} \cup {BaseOption},
        keys \in SUBSET {"url", "protocol"}}
        \cup {DictPop(BaseOption, "name")}

LinkItems ==
    {DictSet(BaseItem(7), "options", l) :
        l \in SeqsUpTo(LinkOptions, MaxOptions)}

LinkResponses ==
    ResponsesOf({[kind |-> "object", obj |-> [Items |-> <<it>>]] :
                    it \in LinkItems})

LinkArgs ==
    {[startindex |-> 0, limit |-> 10, bbox |-> <<>>, skip_geometry |-> FALSE]}

NextLinks ==
    \/ Query(LinkArgs)
    \/ RequestJson(LinkResponses)
    \/ ParseJson
    \/ ReturnGeojson

SpecLinks == Init /\ [][NextLinks]_vars

\* the description of an entry in the current language, '' without one
DescriptionOf(opt) ==
    DictGet(DictGet(opt, "description", EmptyDict), LangKey, Str(<<>>)).v

\* the description has exactly two ';'
Overrides(opt) == Count(DescriptionOf(opt), ";") = 2

\* the type of an entry: the first part of an overriding description, else
\* the protocol
TypeOf(opt) ==
    IF Overrides(opt) THEN Str(Split(DescriptionOf(opt), ";")[1])
    ELSE DictGet(opt, "protocol", None)

\* the link of an entry as the statement has it: type, rel and hreflang are
\* the three parts of an overriding description
StatedLink(opt) ==
    [href     |-> DictGet(opt, "url", None),
     type     |-> TypeOf(opt),
     rel      |-> IF Overrides(opt) THEN Str(Split(DescriptionOf(opt), ";")[2])
                  ELSE Str(<<"i", "t", "e", "m">>),
     title    |-> DictGet(DictGet(opt, "name", EmptyDict), LangKey, None),
     hreflang |-> IF Overrides(opt) THEN Str(Split(DescriptionOf(opt), ";")[3])
                  ELSE Str(LangText)]

LowerHreflang(lnk) == [lnk EXCEPT !.hreflang = Str(Lower(@.v))]

MissingBoth(opt) == ~Truthy(DictGet(opt, "url", None)) /\ ~Truthy(TypeOf(opt))

MissingOne(opt) == ~Truthy(DictGet(opt, "url", None)) \/ ~Truthy(TypeOf(opt))

KeptUnlessMissingBoth(opt) == ~MissingBoth(opt)

KeptUnlessMissingOne(opt) == ~MissingOne(opt)

\* Link applied to every entry, in the order of the entries
LinksOf(options, Link(_)) == [i \in 1..Len(options) |-> Link(options[i])]

LinkQueryReturned ==
    /\ QueryReturned
    /\ Len(UpstreamItems) = 1
    /\ "options" \in DOMAIN UpstreamItems[1]

ReturnedProperties == result.features[1].properties

\* C8 as stated: an entry without url and without type is dropped, every
\* other entry gives one link, overridden by the three parts of a description
\* with two ';', in properties.associations in encounter order (the case of
\* hreflang aside).
C8_LinksFromOptions ==
    LinkQueryReturned =>
        LinksOf(DictGet(ReturnedProperties, "associations", <<>>),
                LowerHreflang)
            = LinksOf(LinksOf(SelectSeq(UpstreamItems[1].options,
                                        KeptUnlessMissingBoth),
                              StatedLink),
                      LowerHreflang)

\* C8: an entry is dropped when its url or its type is missing or empty, the
\* type being the first part of a description with exactly two ';' and the
\* protocol otherwise; every other entry gives one link with href the url,
\* title the name in the current language, and type, rel and hreflang the
\* three parts of such a description, else protocol, 'item' and the current
\* language, hreflang in lower case.  The links are properties.associations
\* in encounter order; without a link there is no associations property.
C8_LinksFromOptionsWithTypeAndUrl ==
    LinkQueryReturned =>
        /\ "options" \notin DOMAIN ReturnedProperties
        /\ IF SelectSeq(UpstreamItems[1].options, KeptUnlessMissingOne) = <<>>
           THEN "associations" \notin DOMAIN ReturnedProperties
           ELSE ReturnedProperties.associations
                   = LinksOf(LinksOf(SelectSeq(UpstreamItems[1].options,
                                               KeptUnlessMissingOne),
                                     StatedLink),
                             LowerHreflang)

\* an entry with a url overridden by its description, then an entry with a
\* protocol and no url: the one link of the first is returned
C8_Witness ==
    /\ LinkQueryReturned
    /\ Len(UpstreamItems[1].options) = 2
    /\ Overrides(UpstreamItems[1].options[1])
    /\ "protocol" \notin DOMAIN UpstreamItems[1].options[1]
    /\ "url" \notin DOMAIN UpstreamItems[1].options[2]
    /\ "protocol" \in DOMAIN UpstreamItems[1].options[2]
    /\ "associations" \in DOMAIN ReturnedProperties
    /\ Len(ReturnedProperties.associations) = 1
    /\ ReturnedProperties.associations[1].type = Str(<<"T">>)
    /\ ReturnedProperties.associations[1].hreflang = Str(<<"f", "r">>)

=============================================================================
